---------------------------- MODULE Spec2Model ----------------------------
(***************************************************************************)
(* A model of src/pipeline.py of CUMULO: the fusion orchestrator           *)
(* extract_full_swath, the tile driver extract_tiles_from_swath and the    *)
(* command-line hook (the __main__ block).                                 *)
(*                                                                         *)
(* The collaborators (src.modis_level1, src.interpolation,                 *)
(* src.modis_level2, src.cloudsat, src.tile_extraction, src.utils,         *)
(* netcdf.npy_to_nc) are not part of the file; each call is modelled by    *)
(* the outcome it hands back, drawn from a bounded set.                    *)
(***************************************************************************)
EXTENDS Integers, Sequences, FiniteSets

VARIABLES
    callA,   \* one call of extract_full_swath: arguments, collaborator outcomes, outcome
    callB,   \* a second, independent call of extract_full_swath
    main,    \* the command-line hook: position, argv, exception
    tiles,   \* the last call of extract_tiles_from_swath
    fs       \* the paths that exist under save_dir

vars == <<callA, callB, main, tiles, fs>>

-----------------------------------------------------------------------------
(* Bounds of the model.                                                    *)

MaxRows == 1        \* row extents 1..MaxRows
MaxCols == 2        \* column extents 1..MaxCols
MaxDerived == 2     \* level-2 (derived) channel counts 1..MaxDerived
MaxVars == 1        \* track variables the aligner may return
MaxOtherGaps == 1   \* non-visible channels that may stay unfilled (the visible ones always may)
MaxTimes == 2       \* distinct acquisition times of the input granules
MaxTiles == 1       \* tiles per batch 0..MaxTiles

(* Constants of the program.                                               *)

NumChannels == 15   \* channels of the swath grid, the two coordinate channels included
DaylightCount == 15 \* len(filled_ch_idx) == 15

-----------------------------------------------------------------------------
(* Python values.                                                          *)

\* list(range(a, b))
PyRange(a, b) == [i \in 1..(IF b > a THEN b - a ELSE 0) |-> a + i - 1]

ToSet(s) == {s[i] : i \in 1..Len(s)}

\* os.path.basename of a path given as its sequence of components
basename(path) == IF Len(path) = 0 THEN <<>> ELSE path[Len(path)]

\* name.replace(".hdf", ext): a file name is a sequence of fields, the last its extension
ReplaceHdf(name, ext) ==
    [i \in 1..Len(name) |-> IF name[i] = "hdf" THEN ext ELSE name[i]]

\* an array: ch lists where each channel comes from; a 2-D array has no ch
NoGrid == [ch |-> <<>>, rows |-> 0, cols |-> 0, dtype |-> "none"]

Grid(origin, n, r, c) ==
    [ch |-> [i \in 1..n |-> <<origin, i - 1>>], rows |-> r, cols |-> c, dtype |-> "float32"]

\* cm[None, ]: a leading axis of length one
AddAxis(a) == [a EXCEPT !.ch = << <<"cm", 0>> >>]

\* a dict is a function on its keys; None is the absent value
None == [isNone |-> TRUE, d |-> <<>>]
Some(d) == [isNone |-> FALSE, d |-> d]

\* d.update(u)
DictUpdate(d, u) ==
    [k \in (DOMAIN d) \cup (DOMAIN u) |-> IF k \in DOMAIN u THEN u[k] ELSE d[k]]

Msg(text, about) == <<text, about>>

-----------------------------------------------------------------------------
(* The collaborators' outcomes.                                            *)

Channels == 0..(NumChannels - 1)

\* src.interpolation.fill_all_channels: the indices of the channels that are
\* full afterwards, in channel order
RECURSIVE fill_from(_, _)
fill_from(unfilled, c) ==
    IF c >= NumChannels THEN <<>>
    ELSE (IF c \in unfilled THEN <<>> ELSE <<c>>) \o fill_from(unfilled, c + 1)

fill_all_channels(unfilled) == fill_from(unfilled, 0)

Tags == {"daylight", "night", "corrupt"}

\* the channels that are not available during night (the complement of the night list)
VisibleBands == Channels \ ToSet(PyRange(2, 7) \o PyRange(8, 15))

\* the sets of channels the gap filler may leave unfilled in the bounded runs
GapCandidates ==
    VisibleBands \cup {c \in Channels \ VisibleBands :
                          Cardinality({b \in Channels \ VisibleBands : b < c}) < MaxOtherGaps}

Extents == (1..MaxRows) \X (1..MaxCols)

\* src.modis_level1.get_swath: fails, or a (NumChannels, rows, cols) grid
SwathOutcomes ==
    {[ok |-> FALSE, grid |-> NoGrid]}
    \cup {[ok |-> TRUE, grid |-> Grid("myd02", NumChannels, e[1], e[2])] : e \in Extents}

\* src.modis_level2.get_channels: fails, or a (derived, rows, cols) grid
L2Outcomes ==
    {[ok |-> FALSE, grid |-> NoGrid]}
    \cup {[ok |-> TRUE, grid |-> Grid("myd06", d, e[1], e[2])] :
             d \in 1..MaxDerived, e \in Extents}

\* src.modis_level2.get_cloud_mask: fails, or a (rows, cols) mask
CmOutcomes ==
    {[ok |-> FALSE, grid |-> NoGrid]}
    \cup {[ok |-> TRUE, grid |-> Grid("myd35", 0, e[1], e[2])] : e \in Extents}

VarName == <<"CloudLayerType", "CloudLayerBase", "CloudLayerTop", "Precip">>
TrackVars == {VarName[i] : i \in 1..MaxVars}
ReservedKeys == {"width-range", "mapping"}

\* the classes derived from Exception, which "except Exception" catches
ExceptionClasses == {"OSError", "ValueError", "KeyError", "IndexError", "TypeError"}

AlignerErrors == {"OSError", "ValueError"}

Spans == {s \in (0..(MaxCols - 1)) \X (0..(MaxCols - 1)) : s[1] <= s[2]}

\* src.cloudsat.get_cloudsat_mask: raises, or (cs_range, mapping, cloudsat_info)
AlignerFailures ==
    {[ok |-> FALSE, exc |-> x, cs_range |-> <<>>, mapping |-> <<>>, cloudsat_info |-> <<>>] :
        x \in AlignerErrors}

AlignerSuccess(span, names) ==
    [ok |-> TRUE, exc |-> "", cs_range |-> span,
     mapping |-> <<0, span[1], 0, span[2]>>,
     cloudsat_info |-> [v \in names |-> <<Cardinality(names), span[2]>>]]

AlignerOutcomes ==
    AlignerFailures \cup {AlignerSuccess(s, n) : s \in Spans, n \in SUBSET TrackVars}

-----------------------------------------------------------------------------
(* extract_full_swath, statement by statement, on the record L of its      *)
(* locals. L.exc names the exception that left the function, "" if none;   *)
(* once it is set the remaining statements do not run.                     *)

Locals(verbose) ==
    [filename |-> <<>>, verbose |-> verbose, np_swath |-> NoGrid,
     filled_ch_idx |-> <<>>, tag |-> "", l2_channels |-> NoGrid, cm |-> NoGrid,
     bound |-> FALSE, cs_range |-> <<>>, mapping |-> <<>>, cloudsat_info |-> None,
     printed |-> <<>>, called |-> <<>>, exc |-> ""]

Printed(L, when, msgs) == IF when THEN L.printed \o msgs ELSE L.printed

\* lines 25-31
LoadStep(L, myd02_filename, env) ==
    LET L1 == [L EXCEPT !.filename = basename(myd02_filename),
                        !.called = Append(@, "get_swath")]
    IN  IF ~env.swath.ok THEN [L1 EXCEPT !.exc = "OSError"]
        ELSE LET L2 == [L1 EXCEPT !.np_swath = env.swath.grid]
             IN  [L2 EXCEPT !.printed = Printed(L2, L2.verbose # 0,
                                              <<Msg("swath loaded", L2.filename)>>)]

\* lines 44-54
TagOf_NightRange(filled_ch_idx) ==
    IF Len(filled_ch_idx) = DaylightCount THEN "daylight"
    ELSE IF filled_ch_idx = PyRange(2, 15) THEN "night"
    ELSE "corrupt"

TagOf(filled_ch_idx) ==
    IF Len(filled_ch_idx) = DaylightCount THEN "daylight"
    ELSE IF filled_ch_idx = PyRange(2, 7) \o PyRange(8, 15) THEN "night"
    ELSE "corrupt"

\* lines 33-54
FillTagStep_OnlyIfVerbose(L, env) ==
    IF L.exc # "" THEN L ELSE
    LET L1 == [L EXCEPT !.filled_ch_idx = env.filled,
                        !.called = Append(@, "fill_all_channels")]
        L2 == [L1 EXCEPT !.printed = Printed(L1, L1.verbose # 0,
                            <<Msg("Interpolation took", <<>>),
                              Msg("Channels are now full", <<>>)>>)]
    IN  [L2 EXCEPT !.tag = IF L2.verbose # 0 THEN TagOf(L2.filled_ch_idx) ELSE "corrupt"]

FillTagStep(L, env) ==
    IF L.exc # "" THEN L ELSE
    LET L1 == [L EXCEPT !.filled_ch_idx = env.filled,
                        !.called = Append(@, "fill_all_channels")]
        L2 == [L1 EXCEPT !.printed = Printed(L1, L1.verbose # 0,
                            <<Msg("Interpolation took", <<>>),
                              Msg("Channels are now full", <<>>)>>)]
    IN  [L2 EXCEPT !.tag = TagOf(L2.filled_ch_idx)]

\* lines 56-60
L2Step(L, env) ==
    IF L.exc # "" THEN L ELSE
    LET L1 == [L EXCEPT !.called = Append(@, "get_channels")]
    IN  IF ~env.l2.ok THEN [L1 EXCEPT !.exc = "OSError"]
        ELSE [L1 EXCEPT !.l2_channels = env.l2.grid,
                        !.printed = Printed(L1, L1.verbose # 0,
                                          <<Msg("Level2 channels loaded", <<>>)>>)]

\* lines 62-66
CmStep(L, env) ==
    IF L.exc # "" THEN L ELSE
    LET L1 == [L EXCEPT !.called = Append(@, "get_cloud_mask")]
    IN  IF ~env.cm.ok THEN [L1 EXCEPT !.exc = "OSError"]
        ELSE [L1 EXCEPT !.cm = env.cm.grid,
                        !.printed = Printed(L1, L1.verbose # 0,
                                          <<Msg("Cloud mask loaded", <<>>)>>)]

\* lines 68-85: the first try block; only an Exception is caught
AlignStep_CatchOSError(L, env) ==
    IF L.exc # "" THEN L ELSE
    LET al == env.aligner
        L1 == [L EXCEPT !.called = Append(@, "get_cloudsat_mask")]
        L2 == IF al.ok
              THEN [L1 EXCEPT !.bound = TRUE, !.cs_range = al.cs_range,
                              !.mapping = al.mapping,
                              !.cloudsat_info = Some(al.cloudsat_info)]
              ELSE IF al.exc = "OSError"
              THEN [L1 EXCEPT !.printed = Printed(L1, TRUE,
                       <<Msg("Couldn't extract cloudsat track of", L1.filename)>>)]
              ELSE [L1 EXCEPT !.exc = al.exc]
    IN  IF L2.exc # "" THEN L2
        ELSE [L2 EXCEPT !.printed = Printed(L2, L2.verbose # 0,
                                            <<Msg("Cloudsat alignment took", <<>>)>>)]

AlignStep_FailureTagsCorrupt(L, env) ==
    IF L.exc # "" THEN L ELSE
    LET al == env.aligner
        L1 == [L EXCEPT !.called = Append(@, "get_cloudsat_mask")]
        L2 == IF al.ok
              THEN [L1 EXCEPT !.bound = TRUE, !.cs_range = al.cs_range,
                              !.mapping = al.mapping,
                              !.cloudsat_info = Some(al.cloudsat_info)]
              ELSE [L1 EXCEPT !.tag = "corrupt",
                              !.printed = Printed(L1, TRUE,
                       <<Msg("Couldn't extract cloudsat track of", L1.filename)>>)]
    IN  [L2 EXCEPT !.printed = Printed(L2, L2.verbose # 0,
                                       <<Msg("Cloudsat alignment took", <<>>)>>)]

AlignStep(L, env) ==
    IF L.exc # "" THEN L ELSE
    LET al == env.aligner
        L1 == [L EXCEPT !.called = Append(@, "get_cloudsat_mask")]
        L2 == IF al.ok
              THEN [L1 EXCEPT !.bound = TRUE, !.cs_range = al.cs_range,
                              !.mapping = al.mapping,
                              !.cloudsat_info = Some(al.cloudsat_info)]
              ELSE IF al.exc \in ExceptionClasses
              THEN [L1 EXCEPT !.printed = Printed(L1, TRUE,
                       <<Msg("Couldn't extract cloudsat track of", L1.filename)>>)]
              ELSE [L1 EXCEPT !.exc = al.exc]
    IN  IF L2.exc # "" THEN L2
        ELSE [L2 EXCEPT !.printed = Printed(L2, L2.verbose # 0,
                                            <<Msg("Cloudsat alignment took", <<>>)>>)]

\* np.vstack(arrays): the arrays' channels one after the other; the other extents must agree
vstack_MaskFirst(arrays) ==
    IF \A i \in 1..Len(arrays) :
           arrays[i].rows = arrays[1].rows /\ arrays[i].cols = arrays[1].cols
    THEN [ok |-> TRUE,
          val |-> [ch |-> arrays[3].ch \o arrays[1].ch \o arrays[2].ch,
                   rows |-> arrays[1].rows, cols |-> arrays[1].cols,
                   dtype |-> arrays[1].dtype]]
    ELSE [ok |-> FALSE, val |-> NoGrid]

RECURSIVE ConcatChannels(_)
ConcatChannels(arrays) ==
    IF Len(arrays) = 0 THEN <<>> ELSE Head(arrays).ch \o ConcatChannels(Tail(arrays))

vstack(arrays) ==
    IF \A i \in 1..Len(arrays) :
           arrays[i].rows = arrays[1].rows /\ arrays[i].cols = arrays[1].cols
    THEN [ok |-> TRUE,
          val |-> [ch |-> ConcatChannels(arrays),
                   rows |-> arrays[1].rows, cols |-> arrays[1].cols,
                   dtype |-> arrays[1].dtype]]
    ELSE [ok |-> FALSE, val |-> NoGrid]

\* lines 87-88, outside both try blocks
StackStep_SkipOnMismatch(L) ==
    IF L.exc # "" THEN L ELSE
    LET stacked == vstack(<<L.np_swath, L.l2_channels, AddAxis(L.cm)>>)
    IN  IF ~stacked.ok THEN [L EXCEPT !.np_swath = [@ EXCEPT !.dtype = "float16"]]
        ELSE [L EXCEPT !.np_swath = [stacked.val EXCEPT !.dtype = "float16"]]

StackStep(L) ==
    IF L.exc # "" THEN L ELSE
    LET stacked == vstack(<<L.np_swath, L.l2_channels, AddAxis(L.cm)>>)
    IN  IF ~stacked.ok THEN [L EXCEPT !.exc = "ValueError"]
        ELSE [L EXCEPT !.np_swath = [stacked.val EXCEPT !.dtype = "float16"]]

\* lines 90-95: the second try block; the bare except catches the unbound local
MergeStep_EmptyIsAbsent(L) ==
    IF L.exc # "" THEN L ELSE
    IF L.bound /\ DOMAIN L.cloudsat_info.d # {}
    THEN [L EXCEPT !.cloudsat_info =
             Some(DictUpdate(@.d, [k \in ReservedKeys |->
                                      IF k = "width-range" THEN L.cs_range ELSE L.mapping]))]
    ELSE [L EXCEPT !.cloudsat_info = None]

MergeStep(L) ==
    IF L.exc # "" THEN L ELSE
    IF L.bound
    THEN [L EXCEPT !.cloudsat_info =
             Some(DictUpdate(@.d, [k \in ReservedKeys |->
                                      IF k = "width-range" THEN L.cs_range ELSE L.mapping]))]
    ELSE [L EXCEPT !.cloudsat_info = None]

\* what the caller gets: the returned tuple of line 97, or the exception
NoOutcome ==
    [status |-> "none", exc |-> "", np_swath |-> NoGrid, cloudsat_info |-> None,
     tag |-> "", filename |-> <<>>, printed |-> <<>>, called |-> <<>>]

Outcome(L) ==
    IF L.exc # ""
    THEN [NoOutcome EXCEPT !.status = "raised", !.exc = L.exc,
                           !.printed = L.printed, !.called = L.called]
    ELSE [status |-> "returned", exc |-> "", np_swath |-> L.np_swath,
          cloudsat_info |-> L.cloudsat_info, tag |-> L.tag, filename |-> L.filename,
          printed |-> L.printed, called |-> L.called]

\* lines 13-97
extract_full_swath(myd02_filename, verbose, env) ==
    Outcome(
      MergeStep(
        StackStep(
          AlignStep(
            CmStep(
              L2Step(
                FillTagStep(
                  LoadStep(Locals(verbose), myd02_filename, env),
                  env),
                env),
              env),
            env))))

-----------------------------------------------------------------------------
(* Input granules. A path is the sequence of its components, a component   *)
(* the sequence of its dot-separated fields.                               *)

MinuteStr == <<"00", "05", "10", "15", "20">>

GranuleName(i) == <<"MYD021KM", "A", "2008", "001", "00", MinuteStr[i], "hdf">>

GranulePath(i) == << <<"archive">>, <<"01">>, <<"01">>, GranuleName(i) >>

InputPaths == {GranulePath(i) : i \in 1..MaxTimes}

-----------------------------------------------------------------------------
(* Calls of extract_full_swath.                                            *)

Env(sw, f, l, c, a) == [swath |-> sw, filled |-> f, l2 |-> l, cm |-> c, aligner |-> a]

NoEnv == Env([ok |-> FALSE, grid |-> NoGrid], <<>>, [ok |-> FALSE, grid |-> NoGrid],
             [ok |-> FALSE, grid |-> NoGrid],
             [ok |-> FALSE, exc |-> "", cs_range |-> <<>>, mapping |-> <<>>,
              cloudsat_info |-> <<>>])

NoCall == [path |-> <<>>, verbose |-> 0, env |-> NoEnv, out |-> NoOutcome]

Call(path, verbose, env) ==
    [path |-> path, verbose |-> verbose, env |-> env,
     out |-> extract_full_swath(path, verbose, env)]

\* every gap-filler result
AllFills == {fill_all_channels(u) : u \in SUBSET Channels}

\* the gap-filler results of the bounded runs
GapFills == {fill_all_channels(u) : u \in SUBSET GapCandidates}

\* collaborators that all succeed on grids of the given extents
Nominal(f, e, d, a) ==
    Env([ok |-> TRUE, grid |-> Grid("myd02", NumChannels, e[1], e[2])], f,
        [ok |-> TRUE, grid |-> Grid("myd06", d, e[1], e[2])],
        [ok |-> TRUE, grid |-> Grid("myd35", 0, e[1], e[2])], a)

\* one gap-filler result for each tag: all channels, all but the visible ones, three channels
TagFills ==
    {fill_all_channels({}), fill_all_channels(VisibleBands),
     fill_all_channels(Channels \ {0, 1, 2})}

AllEnvs ==
    {Env(sw, f, l, c, a) : sw \in SwathOutcomes, f \in TagFills, l \in L2Outcomes,
                           c \in CmOutcomes, a \in AlignerOutcomes}

Idle == /\ main = [pc |-> "idle"]
        /\ tiles = [status |-> "idle"]
        /\ fs = {}

\* one call, any collaborator outcomes
InitSwath == callA = NoCall /\ callB = NoCall /\ Idle

RunSwath ==
    /\ callA.out.status = "none"
    /\ \E verbose \in {0, 1}, env \in AllEnvs :
           callA' = Call(GranulePath(1), verbose, env)
    /\ UNCHANGED <<callB, main, tiles, fs>>

NextSwath == RunSwath

SpecSwath == InitSwath /\ [][NextSwath]_vars

\* one call on every gap-filler result, the other collaborators succeeding
InitTag == callA = NoCall /\ callB = NoCall /\ Idle

RunTag ==
    /\ callA.out.status = "none"
    /\ \E f \in AllFills, verbose \in {0, 1} :
           callA' = Call(GranulePath(1), verbose,
                         Nominal(f, <<MaxRows, MaxCols>>, MaxDerived,
                                 AlignerSuccess(<<0, MaxCols - 1>>, {})))
    /\ UNCHANGED <<callB, main, tiles, fs>>

NextTag == RunTag

SpecTag == InitTag /\ [][NextTag]_vars

\* two calls on the same loader results and on gap-filler results holding the
\* same set of indices; verbosity and the aligner's outcome are each call's own
Pending(env) == [NoCall EXCEPT !.path = GranulePath(1), !.env = env]

InitPair ==
    /\ \E fA \in GapFills :
          \E fB \in {f \in GapFills : ToSet(f) = ToSet(fA)} :
             /\ callA = Pending(Nominal(fA, <<MaxRows, MaxCols>>, MaxDerived, NoEnv.aligner))
             /\ callB = Pending(Nominal(fB, <<MaxRows, MaxCols>>, MaxDerived, NoEnv.aligner))
    /\ Idle

RunA ==
    /\ callA.out.status = "none"
    /\ \E verbose \in {0, 1}, a \in AlignerOutcomes :
           callA' = Call(callA.path, verbose, [callA.env EXCEPT !.aligner = a])
    /\ UNCHANGED <<callB, main, tiles, fs>>

RunB ==
    /\ callB.out.status = "none"
    /\ \E verbose \in {0, 1}, a \in AlignerOutcomes :
           callB' = Call(callB.path, verbose, [callB.env EXCEPT !.aligner = a])
    /\ UNCHANGED <<callA, main, tiles, fs>>

NextPair == RunA \/ RunB

SpecPair == InitPair /\ [][NextPair]_vars

-----------------------------------------------------------------------------
(* The command-line hook, lines 175-218.                                   *)

\* line 13: the parameters of extract_full_swath; only the last has a default
ExtractParams ==
    <<"myd02_filename", "myd03_dir", "myd06_dir", "myd35_dir", "cloudsat_lidar_dir",
      "cloudsat_dir", "verbose">>

ExtractDefaults == {"verbose"}

\* line 207: six positional arguments and three keyword arguments
MainCallArgs == [positional |-> 6, keywords |-> {"save_dir", "verbose", "save"}]

\* Python's argument binding: a TypeError unless it succeeds
Binds(params, defaults, args) ==
    /\ args.positional <= Len(params)
    /\ args.keywords \subseteq ToSet(params)
    /\ \A i \in 1..args.positional : params[i] \notin args.keywords
    /\ \A i \in (args.positional + 1)..Len(params) :
           params[i] \in args.keywords \cup defaults

\* os.path.split: the directory part and the file name
root_dir_of(path) == SubSeq(path, 1, Len(path) - 1)

\* src.utils.get_file_time_info: year, day of year, hour and minute, read from the file name
get_file_time_info(path) ==
    LET name == basename(path)
    IN  [year |-> name[3], abs_day |-> name[4], hour |-> name[5], minute |-> name[6]]

\* line 194: "A{}.{}.{}{}.nc"
save_name_of(t) == <<"A", t.year, t.abs_day, t.hour, t.minute, "nc">>

\* Path(save_dir).rglob(name): the paths under save_dir, at any depth, named name
rglob_TopLevelOnly(files, name) == {p \in files : Len(p) = 1 /\ p[Len(p)] = name}

rglob(files, name) == {p \in files : Len(p) >= 1 /\ p[Len(p)] = name}

\* the granules given on the command line: in a year/month/day tree, or in a flat directory
FlatPath(i) == << <<"01">>, GranuleName(i) >>

MainInputs == InputPaths \cup {FlatPath(i) : i \in 1..MaxTimes}

OutputNames == {save_name_of(get_file_time_info(p)) : p \in InputPaths}

\* the output files an earlier run may have left: in save_dir or in a tag directory
OutputDirs == {<<>>} \cup {<< <<t>> >> : t \in Tags}

OutputFiles == {Append(d, n) : d \in OutputDirs, n \in OutputNames}

Parents(files) == {SubSeq(p, 1, Len(p) - 1) : p \in {q \in files : Len(q) > 1}}

NoMain ==
    [pc |-> "start", path |-> <<>>, save_name |-> <<>>, exc |-> "", tag |-> "",
     called |-> <<>>]

InitMain ==
    /\ callA = NoCall /\ callB = NoCall
    /\ tiles = [status |-> "idle"]
    /\ main = NoMain
    /\ \E files \in SUBSET OutputFiles : fs = files \cup Parents(files)

\* lines 185-194
MainParse ==
    /\ main.pc = "start"
    /\ \E path \in MainInputs :
          IF Len(root_dir_of(path)) < 2
          THEN main' = [main EXCEPT !.pc = "raised", !.path = path, !.exc = "ValueError"]
          ELSE main' = [main EXCEPT !.pc = "parsed", !.path = path,
                           !.save_name = save_name_of(get_file_time_info(path))]
    /\ UNCHANGED <<callA, callB, tiles, fs>>

\* lines 196-198
MainCheckExisting ==
    /\ main.pc = "parsed"
    /\ IF rglob(fs, main.save_name) # {}
       THEN main' = [main EXCEPT !.pc = "raised", !.exc = "FileExistsError"]
       ELSE main' = [main EXCEPT !.pc = "checked"]
    /\ UNCHANGED <<callA, callB, tiles, fs>>

\* lines 99-133 as called at line 218: the rgb directory, and the image when
\* all three channels were filled
extract_swath_rbg(files, save_dir, path, rgb_filled) ==
    files \cup {Append(save_dir, <<"rgb">>)}
          \cup (IF rgb_filled
                THEN {save_dir \o << <<"rgb">>, ReplaceHdf(basename(path), "png") >>}
                ELSE {})

\* lines 209-218: the tag directory, the netcdf file, the rgb image
Persist(files, out, save_name, path, rgb_filled) ==
    LET save_subdir == << <<out.tag>> >>
    IN  extract_swath_rbg(files \cup {save_subdir, Append(save_subdir, save_name)},
                          save_subdir, path, rgb_filled)

\* line 207 onwards, once the call's arguments are bound
AfterCall(m, out) ==
    IF out.status = "raised"
    THEN [m EXCEPT !.pc = "raised", !.exc = out.exc, !.called = out.called]
    ELSE [m EXCEPT !.pc = "done", !.tag = out.tag, !.called = out.called]

\* lines 200-218
MainExtract ==
    /\ main.pc = "checked"
    /\ IF ~Binds(ExtractParams, ExtractDefaults, MainCallArgs)
       THEN /\ main' = [main EXCEPT !.pc = "raised", !.exc = "TypeError"]
            /\ UNCHANGED fs
       ELSE \E env \in AllEnvs, rgb_filled \in BOOLEAN :
               /\ main' = AfterCall(main, extract_full_swath(main.path, 0, env))
               /\ fs' = IF main'.pc = "done"
                        THEN Persist(fs, extract_full_swath(main.path, 0, env),
                                     main.save_name, main.path, rgb_filled)
                        ELSE fs
    /\ UNCHANGED <<callA, callB, tiles>>

NextMain == MainParse \/ MainCheckExisting \/ MainExtract

SpecMain == InitMain /\ [][NextMain]_vars

-----------------------------------------------------------------------------
(* extract_tiles_from_swath, lines 135-163.                                *)

\* src.tile_extraction.sample_labelled_and_unlabelled_tiles: raises, or the two batches
SamplerOutcomes ==
    {[ok |-> FALSE, exc |-> x, label |-> 0, nonlabel |-> 0] : x \in {"ValueError", "IndexError"}}
    \cup {[ok |-> TRUE, exc |-> "", label |-> l, nonlabel |-> n] :
             l \in 0..MaxTiles, n \in 0..MaxTiles}

\* lines 147-151
TileDirs ==
    {<< <<"label">>, <<"tiles">> >>, << <<"label">>, <<"metadata">> >>,
     << <<"nonlabel">>, <<"tiles">> >>, << <<"nonlabel">>, <<"metadata">> >>}

\* os.makedirs(dr): the directory and its missing parents
makedirs(files, dr) == files \cup {SubSeq(dr, 1, n) : n \in 1..Len(dr)}

TileFiles(swath_name) == {Append(dr, ReplaceHdf(swath_name, "npy")) : dr \in TileDirs}

NoTiles == [status |-> "idle", swath_name |-> <<>>, printed |-> <<>>]

\* the files afterwards, how the call ended, and what it printed
extract_tiles_MakedirsFirst(files, swath_name, sampled, verbose) ==
    LET made == UNION {makedirs(files, dr) : dr \in TileDirs}
    IN  IF ~sampled.ok
        THEN IF sampled.exc = "ValueError"
             THEN [fs |-> made, status |-> "exited", swath_name |-> swath_name,
                   printed |-> <<Msg("Tiles failed to extract.", <<>>)>>]
             ELSE [fs |-> made, status |-> "raised", swath_name |-> swath_name,
                   printed |-> <<>>]
        ELSE [fs |-> made \cup TileFiles(swath_name),
              status |-> "saved", swath_name |-> swath_name,
              printed |-> IF verbose > 0
                          THEN <<Msg("tiles extracted from swath", swath_name)>>
                          ELSE <<>>]

extract_tiles_from_swath(files, swath_name, sampled, verbose) ==
    IF ~sampled.ok
    THEN IF sampled.exc = "ValueError"
         THEN [fs |-> files, status |-> "exited", swath_name |-> swath_name,
               printed |-> <<Msg("Tiles failed to extract.", <<>>)>>]
         ELSE [fs |-> files, status |-> "raised", swath_name |-> swath_name,
               printed |-> <<>>]
    ELSE [fs |-> UNION {makedirs(files, dr) : dr \in TileDirs} \cup TileFiles(swath_name),
          status |-> "saved", swath_name |-> swath_name,
          printed |-> IF verbose > 0
                      THEN <<Msg("tiles extracted from swath", swath_name)>>
                      ELSE <<>>]

InitTiles ==
    /\ callA = NoCall /\ callB = NoCall
    /\ main = [pc |-> "idle"]
    /\ tiles = NoTiles
    /\ \E dirs \in SUBSET TileDirs, tops \in SUBSET {<< <<"label">> >>, << <<"nonlabel">> >>} :
          fs = dirs \cup Parents(dirs) \cup tops

\* a caller samples one swath after the other, until a call ends the process
ExtractTiles ==
    /\ tiles.status \in {"idle", "saved"}
    /\ \E i \in 1..MaxTimes, sampled \in SamplerOutcomes, verbose \in {0, 1} :
          LET r == extract_tiles_from_swath(fs, GranuleName(i), sampled, verbose)
          IN  /\ fs' = r.fs
              /\ tiles' = [status |-> r.status, swath_name |-> r.swath_name,
                           printed |-> r.printed]
    /\ UNCHANGED <<callA, callB, main>>

NextTiles == ExtractTiles

SpecTiles == InitTiles /\ [][NextTiles]_vars

-----------------------------------------------------------------------------
(* The claims.                                                             *)

Returned(c) == c.out.status = "returned"

\* the loaders hand back grids, and the grids' row and column extents agree
SameExtents(g, h) == g.rows = h.rows /\ g.cols = h.cols

LoadersSucceed(env) ==
    /\ env.swath.ok /\ env.l2.ok /\ env.cm.ok
    /\ SameExtents(env.l2.grid, env.swath.grid)
    /\ SameExtents(env.cm.grid, env.swath.grid)

Has(printed, m) == \E i \in 1..Len(printed) : printed[i] = m

\* C1: when the track aligner raises and the other collaborators succeed, the
\* call returns the tensor, the tag and the basename, the metadata is None and
\* the failure message naming the basename is printed, whatever verbose is.
C1_AlignerFailureTolerated ==
    (callA.out.status # "none" /\ ~callA.env.aligner.ok /\ LoadersSucceed(callA.env)) =>
        /\ Returned(callA)
        /\ callA.out.np_swath # NoGrid
        /\ callA.out.tag \in Tags
        /\ callA.out.filename = callA.path[Len(callA.path)]
        /\ callA.out.cloudsat_info.isNone
        /\ Has(callA.out.printed,
               <<"Couldn't extract cloudsat track of", callA.path[Len(callA.path)]>>)

C1_Witness ==
    /\ Returned(callA) /\ callA.verbose = 0
    /\ ~callA.env.aligner.ok /\ callA.env.aligner.exc = "ValueError"
    /\ callA.out.cloudsat_info.isNone

NightSet == {2, 3, 4, 5, 6, 8, 9, 10, 11, 12, 13, 14}

\* C2: the tag is daylight exactly when the filled set is {0..14}, otherwise
\* night exactly when it is {2,3,4,5,6,8,...,14}, otherwise corrupt.
C2_TagPolicy ==
    Returned(callA) =>
        LET filled == ToSet(callA.env.filled)
        IN  /\ (callA.out.tag = "daylight") <=> (filled = 0..14)
            /\ (callA.out.tag = "night") <=> (filled = NightSet)
            /\ (callA.out.tag = "corrupt") <=> (filled # 0..14 /\ filled # NightSet)
            /\ (filled = {0, 1, 2}) => (callA.out.tag = "corrupt")

C2_Witness ==
    /\ Returned(callA) /\ ToSet(callA.env.filled) = NightSet /\ callA.out.tag = "night"

C6_AlignerFailureLeavesTensorAndTag ==
    (/\ callA.out.status # "none" /\ callB.out.status # "none"
     /\ callA.env.swath = callB.env.swath /\ callA.env.filled = callB.env.filled
     /\ callA.env.l2 = callB.env.l2 /\ callA.env.cm = callB.env.cm
     /\ ~callA.env.aligner.ok
     /\ callB.env.aligner.ok /\ DOMAIN callB.env.aligner.cloudsat_info = {})
        => /\ Returned(callA) /\ Returned(callB)
           /\ callA.out.np_swath = callB.out.np_swath
           /\ callA.out.tag = callB.out.tag
           /\ callA.out.filename = callB.out.filename
           /\ callA.out.cloudsat_info.isNone /\ ~callB.out.cloudsat_info.isNone

C6_Witness ==
    /\ Returned(callA) /\ Returned(callB)
    /\ ~callA.env.aligner.ok
    /\ callB.env.aligner.ok /\ DOMAIN callB.env.aligner.cloudsat_info = {}
    /\ callA.out.tag = "daylight"
    /\ callA.out.np_swath = callB.out.np_swath

\* C7: when the aligner succeeds the metadata is a mapping holding every
\* variable the aligner returned, width-range bound to the span and mapping
\* bound to the pixel mapping; the metadata is None exactly when the aligner failed.
C7_MetadataMerge ==
    Returned(callA) =>
        LET al == callA.env.aligner
            info == callA.out.cloudsat_info
        IN  /\ info.isNone <=> ~al.ok
            /\ al.ok =>
                  /\ DOMAIN info.d = (DOMAIN al.cloudsat_info) \cup {"width-range", "mapping"}
                  /\ \A v \in DOMAIN al.cloudsat_info : info.d[v] = al.cloudsat_info[v]
                  /\ info.d["width-range"] = al.cs_range
                  /\ info.d["mapping"] = al.mapping

C7_Witness ==
    /\ Returned(callA) /\ callA.env.aligner.ok
    /\ DOMAIN callA.env.aligner.cloudsat_info = {}
    /\ DOMAIN callA.out.cloudsat_info.d = {"width-range", "mapping"}

\* C8: a returned tensor has the swath grid's channels, then the derived
\* channels, then the mask as its last channel, and the swath grid's rows and columns.
C8_FusedTensorShape ==
    Returned(callA) =>
        LET t == callA.out.np_swath
            sw == callA.env.swath.grid
            l2 == callA.env.l2.grid
        IN  /\ Len(t.ch) = Len(sw.ch) + Len(l2.ch) + 1
            /\ t.rows = sw.rows /\ t.cols = sw.cols
            /\ SubSeq(t.ch, 1, Len(sw.ch)) = sw.ch
            /\ SubSeq(t.ch, Len(sw.ch) + 1, Len(sw.ch) + Len(l2.ch)) = l2.ch
            /\ t.ch[Len(t.ch)] = <<"cm", 0>>

C8_Witness ==
    /\ Returned(callA)
    /\ Len(callA.env.l2.grid.ch) = MaxDerived
    /\ Len(callA.out.np_swath.ch) = NumChannels + MaxDerived + 1
    /\ callA.out.np_swath.rows = MaxRows

\* C10: when the channel loader fails, or the derived grid or the mask has
\* other row/column extents than the swath grid, the call raises and returns
\* nothing, whatever the aligner did, and nothing is created under save_dir.
ShapeMismatch(env) ==
    /\ env.swath.ok /\ env.l2.ok /\ env.cm.ok
    /\ \/ ~SameExtents(env.l2.grid, env.swath.grid)
       \/ ~SameExtents(env.cm.grid, env.swath.grid)

C10_FatalErrorsPropagate ==
    (callA.out.status # "none" /\ (~callA.env.swath.ok \/ ShapeMismatch(callA.env))) =>
        /\ callA.out.status = "raised"
        /\ callA.out.exc # ""
        /\ ShapeMismatch(callA.env) => callA.out.exc = "ValueError"
        /\ callA.out.np_swath = NoGrid /\ callA.out.tag = ""
        /\ callA.out.cloudsat_info.isNone /\ callA.out.filename = <<>>
        /\ fs = {}

C10_Witness ==
    /\ callA.out.status = "raised" /\ callA.out.exc = "ValueError"
    /\ ShapeMismatch(callA.env)
    /\ ~callA.env.aligner.ok

OutputExists == \E p \in fs : Len(p) >= 1 /\ p[Len(p)] = main.save_name

\* C4: when the canonical output file exists anywhere under save_dir, the run
\* can only fail with FileExistsError: no loader is called and save_dir is
\* left as it was.
C4_ExistingOutputFailsFast ==
    [][(main.pc = "parsed" /\ OutputExists) =>
          /\ main'.pc = "raised" /\ main'.exc = "FileExistsError"
          /\ main'.called = <<>>
          /\ fs' = fs]_vars

C4_Witness ==
    /\ main.pc = "raised" /\ main.exc = "FileExistsError" /\ main.called = <<>>
    /\ \E p \in fs : Len(p) = 2 /\ p[2] = main.save_name

\* C5: a run on a well-formed input whose output does not exist yet, with no
\* collaborator failing, ends with the output written to
\* save_dir / tag / canonical filename.
C5_NewInputIsWritten ==
    (main.pc \in {"raised", "done"}
     /\ main.exc \notin {"ValueError", "FileExistsError", "OSError"})
        => /\ main.pc = "done"
           /\ main.tag \in Tags
           /\ << <<main.tag>>, main.save_name >> \in fs

\* C9: a call in which the tile sampler signals a value error reports it and
\* ends the process with save_dir as it was: no directory made, no file written.
C9_SamplingErrorWritesNothing ==
    [][(tiles'.status = "exited") =>
          /\ fs' = fs
          /\ Has(tiles'.printed, <<"Tiles failed to extract.", <<>> >>)
          /\ TileFiles(tiles'.swath_name) \cap fs' = TileFiles(tiles'.swath_name) \cap fs]_vars

C9_Witness ==
    /\ tiles.status = "exited"
    /\ TileDirs \cap fs = {}
    /\ TileFiles(tiles.swath_name) \cap fs = {}

====
